---- MODULE Spec2Model ----
(***************************************************************************)
(* xtree (src/src/main.rs): a depth-bounded directory scan that keeps the  *)
(* directories whose name contains a search term (or that lead to one),    *)
(* followed by the rendering of the pruned tree.                           *)
(*                                                                         *)
(* A Rust String is a sequence of characters; every character has a UTF-8  *)
(* width, and str indices are byte offsets.  Characters are written as     *)
(* short TLA+ strings: "a", "b", "B" and "." are ASCII, "KELVIN" is U+212A *)
(* (3 bytes, lower-cased to "k"), "IDOT" is U+0130 (2 bytes, lower-cased   *)
(* to "i" followed by "DOTABOVE", U+0307, 2 bytes).                        *)
(***************************************************************************)
EXTENDS Integers, Sequences, FiniteSets, TLC

VARIABLES
    fs,         \* the directory tree on disk, rooted at the directory argument
    search,     \* the search argument, as typed
    depth,      \* the parsed --depth argument (max_depth)
    pc,         \* position of main
    tree,       \* Option<Tree> returned by build_tree_dict
    scan,       \* history: what scan_dir returned for the root, and the entries it examined
    out,        \* lines written to stdout so far
    stack,      \* call stack of print_tree
    calls,      \* history: the arguments of every print_tree invocation
    hl_pc,      \* highlight_substring on its own: position
    hl_s,       \*   argument s
    hl_sub,     \*   the search term it is given lower-cased
    hl_ret      \*   its result

vars == <<fs, search, depth, pc, tree, scan, out, stack, calls,
          hl_pc, hl_s, hl_sub, hl_ret>>

run_vars == <<fs, search, depth, pc, tree, scan, out, stack, calls>>
hl_vars == <<hl_pc, hl_s, hl_sub, hl_ret>>

----------------------------------------------------------------------------
(* Bounds of the model *)

\* directory entries below the root (directories and others together)
MaxEntries == 3
\* the --depth argument ranges over 0..MaxDepthArg
MaxDepthArg == 3
\* characters of a name given to highlight_substring on its own
MaxNameLen == 3

----------------------------------------------------------------------------
(* Strings *)

\* UTF-8 width of a character
Utf8Len(c) ==
    CASE c = "KELVIN" -> 3
      [] c = "IDOT" -> 2
      [] c = "DOTABOVE" -> 2
      [] OTHER -> 1

\* char::to_lowercase
LowerChar(c) ==
    CASE c = "A" -> <<"a">>
      [] c = "B" -> <<"b">>
      [] c = "KELVIN" -> <<"k">>
      [] c = "IDOT" -> <<"i", "DOTABOVE">>
      [] OTHER -> <<c>>

RECURSIVE to_lowercase(_)
\* str::to_lowercase
to_lowercase(s) ==
    IF s = <<>> THEN <<>> ELSE LowerChar(Head(s)) \o to_lowercase(Tail(s))

RECURSIVE len(_)
\* str::len: the length in bytes
len(s) == IF s = <<>> THEN 0 ELSE Utf8Len(Head(s)) + len(Tail(s))

\* the character positions (0-based) at which needle occurs in haystack
Occurrences(haystack, needle) ==
    {i \in 0..(Len(haystack) - Len(needle)) :
        SubSeq(haystack, i + 1, i + Len(needle)) = needle}

\* str::contains
contains(haystack, needle) == Occurrences(haystack, needle) # {}

None == -1

\* str::find: the byte offset of the first occurrence, or None
find(haystack, needle) ==
    IF Occurrences(haystack, needle) = {} THEN None
    ELSE LET i == CHOOSE j \in Occurrences(haystack, needle) :
                      \A k \in Occurrences(haystack, needle) : j <= k
         IN  len(SubSeq(haystack, 1, i))

\* str::is_char_boundary
is_char_boundary(s, off) == \E k \in 0..Len(s) : len(SubSeq(s, 1, k)) = off

\* the number of characters of s that end at or before byte offset off
CharsBefore(s, off) ==
    CHOOSE k \in 0..Len(s) : len(SubSeq(s, 1, k)) = off

\* &s[from..to]: panics unless from <= to <= s.len() and both are boundaries
SliceOk(s, from, to) ==
    /\ from <= to
    /\ to <= len(s)
    /\ is_char_boundary(s, from)
    /\ is_char_boundary(s, to)

Slice(s, from, to) == SubSeq(s, CharsBefore(s, from) + 1, CharsBefore(s, to))

\* the two ANSI escape sequences, each one element of a rendered string
ColourStart == "ESC[91m"
ColourReset == "ESC[0m"

\* highlight_substring: the rendered string, or a panic of a slice
highlight_substring(s, substr_lower) ==
    LET s_lower == to_lowercase(s)
        pos == find(s_lower, substr_lower)
        n == len(substr_lower)
    IN  IF pos = None THEN [panic |-> FALSE, text |-> s]
        ELSE IF ~ SliceOk(s, 0, pos) \/ ~ SliceOk(s, pos, pos + n)
                \/ ~ SliceOk(s, pos + n, len(s))
             THEN [panic |-> TRUE, text |-> <<>>]
             ELSE [panic |-> FALSE,
                   text |-> Slice(s, 0, pos) \o <<ColourStart>>
                            \o Slice(s, pos, pos + n) \o <<ColourReset>>
                            \o Slice(s, pos + n, len(s))]

----------------------------------------------------------------------------
(* The directory tree on disk *)

\* An entry of a directory, as fs::read_dir yields it:
\*   kind "dir"      a directory; ok says whether read_dir succeeds on it
\*   kind "file"     file_type() succeeds and is not a directory
\*   kind "badtype"  file_type() fails
\*   kind "badentry" the iterator yields Err for it
DirNames == {<<"a">>, <<"B">>, <<"KELVIN", "b">>}
OtherKinds == {"file", "badtype", "badentry"}

RECURSIVE Forests(_, _, _), Entries(_, _, _)
\* the sequences of entries holding n entries in all, u of them directories
\* that cannot be read and o of them no directories (u and o are 0 or 1)
Forests(n, u, o) ==
    IF n = 0 THEN (IF u = 0 /\ o = 0 THEN {<<>>} ELSE {})
    ELSE UNION {{<<t>> \o rest :
                    t \in Entries(c[1], c[2], c[3]),
                    rest \in Forests(n - c[1], u - c[2], o - c[3])} :
                c \in (1..n) \X (0..u) \X (0..o)}

\* the entries holding k entries in all, themselves included
Entries(k, u, o) ==
    {[kind |-> "dir", name |-> nm, ok |-> TRUE, entries |-> f] :
        nm \in DirNames, f \in Forests(k - 1, u, o)}
    \cup (IF u = 1
          THEN {[kind |-> "dir", name |-> nm, ok |-> FALSE, entries |-> f] :
                   nm \in DirNames, f \in Forests(k - 1, 0, o)}
          ELSE {})
    \cup (IF k = 1 /\ u = 0 /\ o = 1
          THEN {[kind |-> kd, name |-> <<"B">>, ok |-> FALSE, entries |-> <<>>] :
                   kd \in OtherKinds}
          ELSE {})

\* the directory argument
Directory == <<".">>

Root(ok, entries) ==
    [kind |-> "dir", name |-> Directory, ok |-> ok, entries |-> entries]

\* the directory trees with n entries below the root, o of them no
\* directories, and u directories that cannot be read, the root included
RootsOf(n, u, o) ==
    {Root(TRUE, f) : f \in Forests(n, u, o)}
    \cup (IF u = 1 THEN {Root(FALSE, f) : f \in Forests(n, 0, o)} ELSE {})

----------------------------------------------------------------------------
(* Tree Builder *)

\* struct Tree, with the path (entry indices from the root) it was built from
Tree(name, children, path) ==
    [name |-> name, children |-> children, path |-> path]

EmptyScan == [children |-> <<>>, score |-> 0, seen |-> {}]

RECURSIVE scan_dir(_, _, _, _, _), scan_entries(_, _, _, _, _, _, _)

\* a faulty variant of scan_dir: the cutoff test is depth > max_depth
scan_dir_off_by_one(dir, path, d, max_depth, searchterm_lower) ==
    IF d > max_depth THEN EmptyScan
    ELSE IF ~ dir.ok THEN EmptyScan
    ELSE scan_entries(dir.entries, 1, path, d, max_depth, searchterm_lower,
                      EmptyScan)

\* a faulty variant of scan_dir: a directory that cannot be read is scanned as if
\* it could be
scan_dir_reads_all(dir, path, d, max_depth, searchterm_lower) ==
    IF d >= max_depth THEN EmptyScan
    ELSE scan_entries(dir.entries, 1, path, d, max_depth, searchterm_lower,
                      EmptyScan)

\* scan_dir: (children, total_score), and the entries it examined
scan_dir(dir, path, d, max_depth, searchterm_lower) ==
    IF d >= max_depth THEN EmptyScan
    ELSE IF ~ dir.ok THEN EmptyScan
    ELSE scan_entries(dir.entries, 1, path, d, max_depth, searchterm_lower,
                      EmptyScan)

\* a faulty variant of the loop body: an entry is kept only if its own name matches
scan_entry_own_only(entry, p, d, max_depth, searchterm_lower, acc) ==
    IF entry.kind # "dir" THEN acc
    ELSE LET sub == scan_dir(entry, p, d + 1, max_depth, searchterm_lower)
             found == contains(to_lowercase(entry.name), searchterm_lower)
             score_here == IF found THEN 1 ELSE 0
         IN  [children |->
                  IF found
                  THEN Append(acc.children, Tree(entry.name, sub.children, p))
                  ELSE acc.children,
              score |-> acc.score + score_here + sub.score,
              seen |-> acc.seen \cup {p} \cup sub.seen]

\* a faulty variant of the loop body: every directory scores, matching or not
scan_entry_counts_all(entry, p, d, max_depth, searchterm_lower, acc) ==
    IF entry.kind # "dir" THEN acc
    ELSE LET sub == scan_dir(entry, p, d + 1, max_depth, searchterm_lower)
             found == contains(to_lowercase(entry.name), searchterm_lower)
             score_here == 1
         IN  [children |->
                  IF found \/ sub.score > 0
                  THEN Append(acc.children, Tree(entry.name, sub.children, p))
                  ELSE acc.children,
              score |-> acc.score + score_here + sub.score,
              seen |-> acc.seen \cup {p} \cup sub.seen]

\* one pass of the loop over the entries of a directory (the u32 score stays
\* far below 2^32 for the directory trees of the model)
scan_entry(entry, p, d, max_depth, searchterm_lower, acc) ==
    IF entry.kind # "dir" THEN acc
    ELSE LET sub == scan_dir(entry, p, d + 1, max_depth, searchterm_lower)
             found == contains(to_lowercase(entry.name), searchterm_lower)
             score_here == IF found THEN 1 ELSE 0
         IN  [children |->
                  IF found \/ sub.score > 0
                  THEN Append(acc.children, Tree(entry.name, sub.children, p))
                  ELSE acc.children,
              score |-> acc.score + score_here + sub.score,
              seen |-> acc.seen \cup {p} \cup sub.seen]

\* the loop over the entries of a directory, from entry i on
scan_entries(entries, i, path, d, max_depth, searchterm_lower, acc) ==
    IF i > Len(entries) THEN acc
    ELSE scan_entries(entries, i + 1, path, d, max_depth, searchterm_lower,
                      scan_entry(entries[i], Append(path, i), d, max_depth,
                                 searchterm_lower, acc))

NoTree == [some |-> FALSE, tree |-> Tree(<<>>, <<>>, <<>>)]

\* a faulty variant of build_tree_dict: the score is not looked at
build_tree_dict_always(root, searchterm_lower, max_depth) ==
    LET r == scan_dir(root, <<>>, 0, max_depth, searchterm_lower)
    IN  [some |-> TRUE, tree |-> Tree(root.name, r.children, <<>>)]

\* build_tree_dict: Option<Tree>
build_tree_dict(root, searchterm_lower, max_depth) ==
    LET r == scan_dir(root, <<>>, 0, max_depth, searchterm_lower)
    IN  IF r.score = 0 THEN NoTree
        ELSE [some |-> TRUE, tree |-> Tree(root.name, r.children, <<>>)]

----------------------------------------------------------------------------
(* Tree Renderer: print_tree as a call stack, one frame per invocation *)

Frame(t, prefix, skip_first, count) ==
    [tree |-> t, prefix |-> prefix, skip_first |-> skip_first,
     count |-> count, i |-> 0, dir_count |-> 0]

Top == stack[Len(stack)]

\* the two pieces print_tree appends to a prefix
FourSpaces == "    "
BarSpaces == "|   "

\* the two connectors
Corner == "+-- "
Tee == "|-- "

Line(kind, prefix, branch, text, n) ==
    [kind |-> kind, prefix |-> prefix, branch |-> branch, text |-> text, n |-> n]

\* the lines main prints itself
HelpLine == Line("help", <<>>, "", <<>>, 0)
NoMatchLine == Line("nomatch", <<>>, "", <<>>, 0)
RootLine(name) == Line("root", <<>>, "", name, 0)

\* the footer: a blank line, the count and "directory" or "directories"
FooterLine(dir_count) ==
    Line("footer", <<>>, "",
         <<IF dir_count = 1 THEN "directory" ELSE "directories">>, dir_count)

\* the lower-cased search term main computes
search_lower == to_lowercase(search)

\* a faulty variant of the first call of print_tree: the root level is suppressed
RootFrameSuppressed(t) == Frame(t, <<>>, TRUE, FALSE)

\* the first call of print_tree, made by main
RootFrame(t) == Frame(t, <<>>, FALSE, FALSE)

\* the recursive call of print_tree
ChildFrame(child, child_prefix) == Frame(child, child_prefix, FALSE, TRUE)

\* is_last of the child at index i
is_last(f) == f.i = Len(f.tree.children) - 1

\* branch
branch(f) == IF is_last(f) THEN Corner ELSE Tee

\* next_prefix
next_prefix(f) ==
    IF f.skip_first THEN f.prefix
    ELSE IF is_last(f) THEN Append(f.prefix, FourSpaces)
    ELSE Append(f.prefix, BarSpaces)

\* child_prefix
child_prefix(f) == IF f.skip_first THEN f.prefix ELSE next_prefix(f)

\* the child the loop of the top frame is at
CurChild(f) == f.tree.children[f.i + 1]

\* a faulty variant of the match test of print_tree: every printed child counts
ChildMatches_all(f) == TRUE

\* whether the name of the current child contains the search term
ChildMatches(f) == contains(to_lowercase(CurChild(f).name), search_lower)

\* display_name of the current child
display_name(f) ==
    IF ChildMatches(f) THEN highlight_substring(CurChild(f).name, search_lower)
    ELSE [panic |-> FALSE, text |-> CurChild(f).name]

\* the history entry of an invocation
Call(f) == [skip_first |-> f.skip_first, count |-> f.count, path |-> f.tree.path]

----------------------------------------------------------------------------
(* main *)

\* the search argument is absent or empty: the help text
Help ==
    /\ pc = "start"
    /\ search = <<>>
    /\ out' = Append(out, HelpLine)
    /\ pc' = "done"
    /\ UNCHANGED <<fs, search, depth, tree, scan, stack, calls, hl_vars>>

\* build_tree_dict(directory, &search_lower, depth)
Build ==
    /\ pc = "start"
    /\ search # <<>>
    /\ tree' = build_tree_dict(fs, search_lower, depth)
    /\ scan' = scan_dir(fs, <<>>, 0, depth, search_lower)
    /\ pc' = "built"
    /\ UNCHANGED <<fs, search, depth, out, stack, calls, hl_vars>>

\* the else branch: no directory matches
NoMatch ==
    /\ pc = "built"
    /\ ~ tree.some
    /\ out' = Append(out, NoMatchLine)
    /\ pc' = "done"
    /\ UNCHANGED <<fs, search, depth, tree, scan, stack, calls, hl_vars>>

\* the root line, and the call print_tree(&tree, &search_lower, "", false, false)
PrintRoot ==
    /\ pc = "built"
    /\ tree.some
    /\ out' = Append(out, RootLine(tree.tree.name))
    /\ stack' = <<RootFrame(tree.tree)>>
    /\ calls' = Append(calls, Call(RootFrame(tree.tree)))
    /\ pc' = "print"
    /\ UNCHANGED <<fs, search, depth, tree, scan, hl_vars>>

\* one pass of the loop of print_tree, up to the recursive call it makes
PrintChild ==
    /\ pc = "print"
    /\ Top.i < Len(Top.tree.children)
    /\ Top.skip_first \/ ~ display_name(Top).panic
    /\ out' = IF Top.skip_first THEN out
              ELSE Append(out, Line("node", Top.prefix, branch(Top),
                                    display_name(Top).text, 0))
    /\ LET counted == IF ~ Top.skip_first /\ ChildMatches(Top) THEN 1 ELSE 0
           callee == ChildFrame(CurChild(Top), child_prefix(Top))
       IN  /\ stack' = Append([stack EXCEPT ![Len(stack)].dir_count = @ + counted],
                              callee)
           /\ calls' = Append(calls, Call(callee))
    /\ pc' = "print"
    /\ UNCHANGED <<fs, search, depth, tree, scan, hl_vars>>

\* one pass of the loop in which a slice of highlight_substring panics
PrintChildPanic ==
    /\ pc = "print"
    /\ Top.i < Len(Top.tree.children)
    /\ ~ Top.skip_first
    /\ display_name(Top).panic
    /\ pc' = "panicked"
    /\ UNCHANGED <<fs, search, depth, tree, scan, out, stack, calls, hl_vars>>

\* the loop of the top frame is over: the footer unless count, and the return
Return ==
    /\ pc = "print"
    /\ Top.i = Len(Top.tree.children)
    /\ out' = IF Top.count THEN out ELSE Append(out, FooterLine(Top.dir_count))
    /\ IF Len(stack) = 1
       THEN /\ stack' = <<>>
            /\ pc' = "done"
       ELSE /\ stack' = [SubSeq(stack, 1, Len(stack) - 1)
                            EXCEPT ![Len(stack) - 1].dir_count = @ + Top.dir_count,
                                   ![Len(stack) - 1].i = @ + 1]
            /\ pc' = "print"
    /\ UNCHANGED <<fs, search, depth, tree, scan, calls, hl_vars>>

----------------------------------------------------------------------------
(* highlight_substring on its own *)

HlAlphabet == {"a", "b", "B", "KELVIN", "IDOT"}
HlTermAlphabet == {"a", "B"}

RECURSIVE Strings(_, _)
\* the strings over an alphabet of at most n characters
Strings(alphabet, n) ==
    IF n = 0 THEN {<<>>}
    ELSE Strings(alphabet, n - 1)
         \cup {Append(s, c) : s \in Strings(alphabet, n - 1), c \in alphabet}

HighlightCall ==
    /\ hl_pc = "start"
    /\ hl_ret' = highlight_substring(hl_s, hl_sub)
    /\ hl_pc' = "done"
    /\ UNCHANGED <<hl_s, hl_sub, run_vars>>

----------------------------------------------------------------------------
(* Specifications *)

NoResult == [panic |-> FALSE, text |-> <<>>]

\* the search arguments of the model: none, and one that is not lower case
Searches == {<<>>, <<"B">>}

\* The directory trees of the model hold at most MaxEntries entries below
\* the root, among them at most one that is not a directory and at most one
\* directory (the root included) that cannot be read.  main does not touch
\* the directory when the search argument is empty, so one directory stands
\* for all of them there.
RunInit ==
    /\ search \in Searches
    /\ IF search = <<>> THEN fs = Root(TRUE, <<>>)
       ELSE \E n \in 0..MaxEntries, u \in 0..1, o \in 0..1 : fs \in RootsOf(n, u, o)
    /\ depth \in 0..MaxDepthArg
    /\ pc = "start"
    /\ tree = NoTree
    /\ scan = EmptyScan
    /\ out = <<>>
    /\ stack = <<>>
    /\ calls = <<>>

Init ==
    /\ RunInit
    /\ hl_pc = "idle"
    /\ hl_s = <<>>
    /\ hl_sub = <<>>
    /\ hl_ret = NoResult

Next ==
    \/ Help
    \/ Build
    \/ NoMatch
    \/ PrintRoot
    \/ PrintChild
    \/ PrintChildPanic
    \/ Return

Spec == Init /\ [][Next]_vars

\* highlight_substring applied to every name and every lower-cased term
InitHL ==
    /\ fs = Root(TRUE, <<>>)
    /\ search = <<>>
    /\ depth = 0
    /\ pc = "idle"
    /\ tree = NoTree
    /\ scan = EmptyScan
    /\ out = <<>>
    /\ stack = <<>>
    /\ calls = <<>>
    /\ hl_pc = "start"
    /\ hl_s \in Strings(HlAlphabet, MaxNameLen)
    /\ hl_sub \in {to_lowercase(t) : t \in Strings(HlTermAlphabet, 2) \ {<<>>}}
    /\ hl_ret = NoResult

NextHL == HighlightCall

SpecHL == InitHL /\ [][NextHL]_vars

----------------------------------------------------------------------------
(* What the claims speak of *)

RECURSIVE EntryAt(_, _)
\* the entry of the directory tree at a path
EntryAt(dir, p) ==
    IF p = <<>> THEN dir ELSE EntryAt(dir.entries[Head(p)], Tail(p))

RECURSIVE DirPathsOf(_, _)
\* the paths of the directories on disk below dir
DirPathsOf(dir, path) ==
    UNION {IF dir.entries[i].kind = "dir"
           THEN {Append(path, i)} \cup DirPathsOf(dir.entries[i], Append(path, i))
           ELSE {} : i \in 1..Len(dir.entries)}

DirPaths == DirPathsOf(fs, <<>>)

\* the depth of a directory: the root is at depth 0, its entries at depth 1
DepthOf(p) == Len(p)

IsPrefix(p, q) == Len(p) <= Len(q) /\ SubSeq(q, 1, Len(p)) = p
IsProperPrefix(p, q) == Len(p) < Len(q) /\ SubSeq(q, 1, Len(p)) = p

\* the directories a scan can reach: not deeper than max_depth, below
\* directories (the root included) that can all be read
Examined ==
    {p \in DirPaths :
        /\ DepthOf(p) <= depth
        /\ \A k \in 0..(Len(p) - 1) : EntryAt(fs, SubSeq(p, 1, k)).ok}

\* a name contains the search term, case-insensitively
NameMatches(name) == contains(to_lowercase(name), to_lowercase(search))

\* the directory at a path has a matching name
Matches(p) == NameMatches(EntryAt(fs, p).name)

MatchingOnDisk == {p \in DirPaths : Matches(p)}

RECURSIVE NodesOf(_)
\* the nodes of a tree below its root
NodesOf(t) ==
    UNION {{t.children[i]} \cup NodesOf(t.children[i]) : i \in 1..Len(t.children)}

Nodes == IF tree.some THEN NodesOf(tree.tree) ELSE {}
TreePaths == {n.path : n \in Nodes}

\* the nodes of the pruned tree whose own name matches
OwnMatches == {n \in Nodes : NameMatches(n.name)}

Footers == {i \in 1..Len(out) : out[i].kind = "footer"}

\* a rendered name without the two escape sequences
Strip(text) == SelectSeq(text, LAMBDA c : c \notin {ColourStart, ColourReset})

RECURSIVE EmptyUnreadable(_)
\* the directory tree in which every directory that cannot be read is an
\* empty directory that can
EmptyUnreadable(e) ==
    IF e.kind # "dir" THEN e
    ELSE IF ~ e.ok THEN [e EXCEPT !.ok = TRUE, !.entries = <<>>]
    ELSE [e EXCEPT !.entries = [i \in 1..Len(e.entries) |->
                                   EmptyUnreadable(e.entries[i])]]

RECURSIVE NodeAtPos(_, _)
\* the node of a tree at a position (child indices from the root)
NodeAtPos(t, pos) ==
    IF pos = <<>> THEN t ELSE NodeAtPos(t.children[Head(pos)], Tail(pos))

RECURSIVE PreOrderFrom(_, _, _)
\* the positions below t in pre-order, from child i of t on
PreOrderFrom(t, pos, i) ==
    IF i > Len(t.children) THEN <<>>
    ELSE <<Append(pos, i)>>
         \o PreOrderFrom(t.children[i], Append(pos, i), 1)
         \o PreOrderFrom(t, pos, i + 1)

\* the node at a position is the last child of its parent
IsLastPos(pos) ==
    pos[Len(pos)] =
        Len(NodeAtPos(tree.tree, SubSeq(pos, 1, Len(pos) - 1)).children)

\* the line the claim gives the node at a position: prefix, connector, name
ExpectedLine(pos) ==
    [prefix |-> [k \in 1..(Len(pos) - 1) |->
                    IF IsLastPos(SubSeq(pos, 1, k)) THEN FourSpaces
                    ELSE BarSpaces],
     branch |-> IF IsLastPos(pos) THEN Corner ELSE Tee,
     name |-> NodeAtPos(tree.tree, pos).name]

ExpectedLines ==
    LET order == PreOrderFrom(tree.tree, <<>>, 1)
    IN  [j \in 1..Len(order) |-> ExpectedLine(order[j])]

\* the tree lines printed so far: prefix, connector, name without escapes
PrintedLines ==
    LET ls == SelectSeq(out, LAMBDA l : l.kind = "node")
    IN  [j \in 1..Len(ls) |->
            [prefix |-> ls[j].prefix, branch |-> ls[j].branch,
             name |-> Strip(ls[j].text)]]

Finished == pc \in {"done", "panicked"}

----------------------------------------------------------------------------
(* The claims *)

\* C1: a directory examined by scan_dir is a node of the pruned tree iff its
\* own name contains the search term, case-insensitively, or the name of an
\* examined descendant does; so every leaf of the pruned tree matches itself.
C1_Inclusion ==
    pc = "built" =>
        /\ scan.seen = Examined
        /\ TreePaths \subseteq scan.seen
        /\ \A p \in scan.seen :
               p \in TreePaths <=>
                   \/ Matches(p)
                   \/ \E q \in scan.seen : IsProperPrefix(p, q) /\ Matches(q)
        /\ \A n \in Nodes :
               /\ n.name = EntryAt(fs, n.path).name
               /\ n.children = <<>> => NameMatches(n.name)

\* C1, reached: a directory kept only for a descendant, and an examined one left out
C1_Witness ==
    /\ pc = "built"
    /\ \E p \in TreePaths : ~ Matches(p)
    /\ scan.seen \ TreePaths # {}

\* C2: the count of the summary line is the number of nodes of the pruned
\* tree, the root aside, whose own name contains the search term.
C2_Count ==
    \A i \in Footers : tree.some /\ out[i].n = Cardinality(OwnMatches)

\* C2, reached: a footer counting two matching nodes of a tree that also holds a node
\* kept only for a descendant
C2_Witness ==
    /\ Footers # {}
    /\ Cardinality(OwnMatches) >= 2
    /\ Nodes \ OwnMatches # {}

\* C3, as claimed: when the matching directories all lie at depth max_depth,
\* no tree is built and the no-match line is the output.
C3_AtCutoff ==
    (/\ pc \in {"built", "done"}
     /\ search # <<>>
     /\ MatchingOnDisk # {}
     /\ \A p \in MatchingOnDisk : DepthOf(p) = depth)
    => /\ ~ tree.some
       /\ pc = "done" => out = <<NoMatchLine>>

\* C3, amended: when the matching directories all lie deeper than max_depth,
\* no tree is built and the no-match line is the output.
C3_BeyondCutoff ==
    (/\ pc \in {"built", "done"}
     /\ search # <<>>
     /\ \A p \in MatchingOnDisk : DepthOf(p) > depth)
    => /\ ~ tree.some
       /\ pc = "done" => out = <<NoMatchLine>>

\* C3, reached: a run over a readable directory tree with max_depth >= 1 whose matching
\* directories all lie deeper than max_depth, ended by the no-match line
C3_Witness ==
    /\ pc = "done"
    /\ search # <<>>
    /\ depth >= 1
    /\ MatchingOnDisk # {}
    /\ \A p \in MatchingOnDisk :
           /\ DepthOf(p) > depth
           /\ \A k \in 0..(Len(p) - 1) : EntryAt(fs, SubSeq(p, 1, k)).ok
    /\ out = <<NoMatchLine>>

\* C4: with max_depth = 0 and a search term, no entry is examined,
\* build_tree_dict returns None and the no-match line is the only output.
C4_DepthZero ==
    (search # <<>> /\ depth = 0) =>
        /\ pc \in {"start", "built", "done"}
        /\ pc # "start" => scan.seen = {} /\ ~ tree.some
        /\ pc # "done" => out = <<>>
        /\ pc = "done" => out = <<NoMatchLine>>

\* C4, reached: a finished run with max_depth = 0 over a readable root that holds a
\* matching directory
C4_Witness ==
    /\ pc = "done"
    /\ search # <<>>
    /\ depth = 0
    /\ fs.ok
    /\ \E p \in MatchingOnDisk : DepthOf(p) = 1

\* C5: a directory that cannot be read counts as an empty one: the scan
\* returns the children, the score and the pruned tree it returns when that
\* directory is empty, it examines the same entries, a directory that cannot
\* be read and does not match is left out, and its matching ancestors stay.
C5_Unreadable ==
    pc = "built" =>
        /\ scan = scan_dir(EmptyUnreadable(fs), <<>>, 0, depth, to_lowercase(search))
        /\ tree = build_tree_dict(EmptyUnreadable(fs), to_lowercase(search), depth)
        /\ \A p \in scan.seen :
               ~ EntryAt(fs, p).ok =>
                   /\ ~ Matches(p) => p \notin TreePaths
                   /\ \A k \in 1..(Len(p) - 1) :
                          Matches(SubSeq(p, 1, k)) => SubSeq(p, 1, k) \in TreePaths
                   /\ \A q \in DirPaths :
                          (/\ Len(q) = Len(p)
                           /\ SubSeq(q, 1, Len(q) - 1) = SubSeq(p, 1, Len(p) - 1))
                          => q \in scan.seen

\* C5, reached: a directory that cannot be read, does not match, lies above the cutoff
\* and hides a matching directory, below a matching directory that is kept
C5_Witness ==
    /\ pc = "built"
    /\ \E p \in scan.seen :
           /\ ~ EntryAt(fs, p).ok
           /\ ~ Matches(p)
           /\ DepthOf(p) < depth
           /\ \E q \in MatchingOnDisk : IsProperPrefix(p, q)
           /\ p \notin TreePaths
           /\ \E k \in 1..(Len(p) - 1) :
                  Matches(SubSeq(p, 1, k)) /\ SubSeq(p, 1, k) \in TreePaths

\* C6: with a search term nothing is printed before the scan is over; the
\* output of a run is then the no-match line alone when the score is 0, and
\* otherwise the root line, the tree lines and one footer, which comes last.
C6_Output ==
    search # <<>> =>
        /\ pc \in {"start", "built"} => out = <<>>
        /\ \A i \in Footers : i = Len(out)
        /\ Finished =>
               IF scan.score = 0 THEN out = <<NoMatchLine>>
               ELSE /\ Len(out) >= 2
                    /\ out[1] = RootLine(Directory)
                    /\ \A i \in 2..(Len(out) - 1) : out[i].kind = "node"
                    /\ out[Len(out)].kind = "footer"

\* C7: for a name whose lower-cased form contains the term,
\* highlight_substring returns the name with the two escapes around the first
\* span whose lower-cased form is the term; any other name comes back as it
\* is; and it never fails.
C7_Highlight ==
    hl_pc = "done" =>
        /\ ~ hl_ret.panic
        /\ Strip(hl_ret.text) = hl_s
        /\ ~ contains(to_lowercase(hl_s), hl_sub) => hl_ret.text = hl_s
        /\ contains(to_lowercase(hl_s), hl_sub) =>
               \E i \in 0..Len(hl_s), j \in 0..Len(hl_s) :
                   /\ i <= j
                   /\ hl_ret.text = SubSeq(hl_s, 1, i) \o <<ColourStart>>
                                    \o SubSeq(hl_s, i + 1, j) \o <<ColourReset>>
                                    \o SubSeq(hl_s, j + 1, Len(hl_s))
                   /\ to_lowercase(SubSeq(hl_s, i + 1, j)) = hl_sub
                   /\ \A i2 \in 0..(i - 1), j2 \in 0..Len(hl_s) :
                          to_lowercase(SubSeq(hl_s, i2 + 1, j2)) # hl_sub

\* C8: print_tree prints one line for every node of the pruned tree below the
\* root, in pre-order, with the corner connector for a last child and the tee
\* otherwise, and a prefix of four spaces for every ancestor that is a last
\* child and of a bar and three spaces for every other ancestor.
C8_Lines ==
    (Finished /\ tree.some) => PrintedLines = ExpectedLines

C10_Score ==
    /\ pc = "built" =>
           /\ scan.score = Cardinality({p \in Examined : Matches(p)})
           /\ tree.some <=> scan.score > 0
           /\ \A p \in Examined :
                  Matches(p) =>
                      \A k \in 1..Len(p) : SubSeq(p, 1, k) \in TreePaths
           /\ \A p \in Examined \ TreePaths :
                  \A q \in Examined : IsPrefix(p, q) => ~ Matches(q)
    /\ \A i \in Footers : out[i].n = scan.score /\ out[i].n >= 1

\* C10, reached: a footer whose count is a score of 2 or more, after a scan that left an
\* examined directory out
C10_Witness ==
    /\ pc = "done"
    /\ Footers # {}
    /\ scan.score >= 2
    /\ scan.seen \ TreePaths # {}

====
